---- MODULE Spec2Model ----
(***************************************************************************)
(* State-machine model of the sun and sky emitter of                       *)
(* src/src/emitters/sunsky.cpp (class SunskyEmitter).                      *)
(*                                                                         *)
(* Representation                                                          *)
(*  - An angle is an integer n.  As a radian quantity n denotes n*pi/180,  *)
(*    as a degree quantity it denotes n degrees.                           *)
(*  - A floating point number is a pair <<num, den>> of naturals:          *)
(*    <<0, 0>> is NaN, <<n, 0>> with n > 0 is +infinity, otherwise the     *)
(*    reduced fraction num/den.                                            *)
(*  - A unit direction is the pair <<theta, phi>> of its polar angle from  *)
(*    the local Z axis and its azimuth, in canonical form: at the two      *)
(*    poles (theta = 0, theta = 180) the vector is (0, 0, +-1) and carries *)
(*    no azimuth, so phi is 0 there.                                       *)
(*  - Turbidity is an integer tb denoting tb / TurbDen.                    *)
(*  - The interpolated coefficient arrays are kept as the terms they are   *)
(*    computed from (dataset, albedo, turbidity, eta).                     *)
(***************************************************************************)
EXTENDS Integers, Sequences, FiniteSets, TLC

\* ------------------------------------------------------------------------
\* Bounds of the model
\* ------------------------------------------------------------------------

\* Resolution of the turbidity axis: turbidity tb denotes tb / TurbDen.
TurbDen == 2

\* At most this many location/time fields differ from their default value.
MaxChanged == 1

\* Number of worker threads that evaluate the emitter concurrently.
NbThreads == 2

\* The value x of the Bezier blend is a multiple of 1 / BezierDen, which is
\* also the machine epsilon of the blend.
BezierDen == 4

\* ------------------------------------------------------------------------
\* Program constants
\* ------------------------------------------------------------------------

\* Number of turbidity levels of the datasets (levels 1..10; the TGMM
\* dataset holds the TURBITDITY_LVLS - 1 levels 2..10).
TURBITDITY_LVLS == 10

\* Number of sun elevation control points of the TGMM dataset (2, 5, .., 89
\* degrees).
ELEVATION_CTRL_PTS == 30

\* Gaussians per mixture of the TGMM dataset.
TGMM_COMPONENTS == 5

\* Parameters per gaussian: {mu_phi, mu_theta, sigma_phi, sigma_theta, weight}.
TGMM_GAUSSIAN_PARAMS == 5

\* Spectral channels of the sky datasets (320nm .. 720nm).
CHANNEL_COUNT == 11

\* Spacing of the elevation control points in degrees (the divisor of
\* (eta - 2) / 3) and offset of the first one.
ElevationStep == 3

ElevationFirst == 2

\* First turbidity level of the TGMM dataset (turbidity - 2).
TurbidityFirst == 2

\* ------------------------------------------------------------------------
\* Rendering variants (template parameters Float, Spectrum)
\* ------------------------------------------------------------------------

Variants ==
    {"scalar_rgb", "scalar_mono", "scalar_spectral",
     "llvm_rgb", "llvm_mono", "llvm_spectral"}

\* dr::is_array_v<Float>: the vectorized (JIT) variants.
is_array_v(v) == v \in {"llvm_rgb", "llvm_mono", "llvm_spectral"}

is_spectral_v(v) == v \in {"scalar_spectral", "llvm_spectral"}

is_rgb_v(v) == v \in {"scalar_rgb", "llvm_rgb"}

\* ------------------------------------------------------------------------
\* Floating point helpers
\* ------------------------------------------------------------------------

RECURSIVE GCD(_, _)
GCD(a, b) == IF b = 0 THEN a ELSE GCD(b, a % b)

NaN == <<0, 0>>

FZero == <<0, 1>>

FOne == <<1, 1>>

\* a / b for non-negative a, b, with IEEE results for a zero divisor.
FDiv(a, b) ==
    IF b = 0 THEN (IF a = 0 THEN NaN ELSE <<1, 0>>)
    ELSE LET g == GCD(a, b) IN <<a \div g, b \div g>>

isnan(x) == x = NaN

\* dr::rcp
rcp(x) == FDiv(x[2], x[1])

Min(a, b) == IF a < b THEN a ELSE b

Max(a, b) == IF a > b THEN a ELSE b

\* dr::clip
clip(x, lo, hi) == Min(Max(x, lo), hi)

RECURSIVE SumSeq(_)
SumSeq(s) == IF s = << >> THEN 0 ELSE Head(s) + SumSeq(Tail(s))

\* ------------------------------------------------------------------------
\* Directions and spherical coordinates
\* ------------------------------------------------------------------------

IsPole(theta) == theta = 0 \/ theta = 180

\* sph_to_dir(theta, phi) = (sin theta cos phi, sin theta sin phi, cos theta)
sph_to_dir(theta, phi) ==
    IF IsPole(theta) THEN <<theta, 0>> ELSE <<theta, phi % 360>>

\* dir_to_sph(v) = (acos(v.z), atan2(v.y, v.x) wrapped to [0, 2 pi))
dir_to_sph(d) == <<d[1], d[2]>>

\* dr::normalize on a vector given as [dir |-> unit direction, len |-> norm]
normalize(v) == v.dir

\* m_to_world.value() * d for a rotation of w about the Z axis
TransformDir(w, d) == sph_to_dir(d[1], d[2] + w)

\* m_to_world.value().inverse() * d
InverseTransformDir(w, d) == sph_to_dir(d[1], d[2] + 360 - w)

\* rad_to_deg: n * (pi / 180) radians are n degrees
rad_to_deg(a) == a

\* ------------------------------------------------------------------------
\* Location / time records and the external sun position
\* ------------------------------------------------------------------------

LocationFields == {"latitude", "longitude", "timezone"}

TimeFields == {"year", "month", "day", "hour", "minute", "second"}

\* The nine location/time property names.
RecordKeys == LocationFields \cup TimeFields

\* A field holds 0 (the default of the constructor, e.g. hour = 15) or 1
\* (one other value).
DefaultLocation == [f \in LocationFields |-> 0]

DefaultTime == [f \in TimeFields |-> 0]

NbChanged(time, location) ==
    Cardinality({f \in TimeFields : time[f] # 0}) +
    Cardinality({f \in LocationFields : location[f] # 0})

\* The (time, location) pairs of the model.
Records ==
    {r \in [TimeFields -> {0, 1}] \X [LocationFields -> {0, 1}] :
        NbChanged(r[1], r[2]) <= MaxChanged}

FieldWeight(f) ==
    CASE f = "latitude" -> 1 [] f = "longitude" -> 2 [] f = "timezone" -> 3
      [] f = "year" -> 4 [] f = "month" -> 5 [] f = "day" -> 6
      [] f = "hour" -> 7 [] f = "minute" -> 8 [] f = "second" -> 9

\* Sun positions <<theta, phi>> (polar angle from the zenith, azimuth) the
\* astronomical function returns: above the horizon, at the zenith, on the
\* horizon and below it.
SunTable ==
    << <<45, 180>>, <<0, 180>>, <<60, 90>>, <<88, 270>>, <<45, 90>>,
       <<100, 0>>, <<30, 180>>, <<90, 270>>, <<3, 0>>, <<120, 90>> >>

RECURSIVE WeightedSum(_, _)
WeightedSum(rec, fields) ==
    IF fields = {} THEN 0
    ELSE LET f == CHOOSE x \in fields : TRUE
         IN  FieldWeight(f) * rec[f] + WeightedSum(rec, fields \ {f})

\* Base::sun_coordinates(m_time, m_location): a function of the two records.
sun_coordinates(time, location) ==
    SunTable[((WeightedSum(time, TimeFields) +
               WeightedSum(location, LocationFields)) % Len(SunTable)) + 1]

\* ------------------------------------------------------------------------
\* Coefficient interpolation (bilinear stage external, Bezier stage kept as
\* the term of its inputs)
\* ------------------------------------------------------------------------

\* Base::bilinear_interp(dataset, m_albedo, m_turbidity)
bilinear_interp(dataset, albedo, turbidity) == <<dataset, albedo, turbidity>>

\* Number of control points of the Bezier blend.
SKY_CTRL_PTS == 6

\* constexpr ScalarFloat coefs[SKY_CTRL_PTS]
BezierCoefs == <<1, 5, 10, 10, 5, 1>>

\* A signed value n / d in lowest terms; d = 0 gives inf (n # 0) or NaN.
FNorm(n, d) ==
    IF d = 0 THEN (IF n = 0 THEN NaN ELSE <<(IF n > 0 THEN 1 ELSE -1), 0>>)
    ELSE LET g == GCD(IF n < 0 THEN -n ELSE n, d)
         IN  <<n \div g, d \div g>>

\* Float product; inf * 0 is NaN.
FMul(a, b) == FNorm(a[1] * b[1], a[2] * b[2])

\* dr::cbrt(2 * dr::InvPi<Float> * eta) for eta in radians (integer
\* degrees), rounded towards zero to a multiple of 1 / BezierDen; the cube
\* root of a negative value is negative.
Cbrt2InvPi(eta) ==
    LET abs == IF eta < 0 THEN -eta ELSE eta
        k == CHOOSE r \in 0..(2 * BezierDen) :
                 /\ r * r * r * 90 <= abs * BezierDen * BezierDen * BezierDen
                 /\ (r + 1) * (r + 1) * (r + 1) * 90 >
                        abs * BezierDen * BezierDen * BezierDen
    IN  IF eta < 0 THEN -k ELSE k

\* dr::OneMinusEpsilon<Float>, as a numerator over BezierDen.
OneMinusEpsilon == BezierDen - 1

\* x of bezier_interp, as a numerator over BezierDen.
BezierX(eta) == Min(Cbrt2InvPi(eta), OneMinusEpsilon)

\* Mutant of BezierWeights: x_pow starts at x instead of 1.
BezierWeights_PowFromX(eta) ==
    LET x == <<BezierX(eta), BezierDen>>
        x_pow_inv_scale == rcp(FNorm(BezierDen - x[1], BezierDen))
        x_pow_inv_0 == LET y == BezierDen - x[1]
                           d == BezierDen
                       IN  FNorm(y * y * y * y * y, d * d * d * d * d)
        XPow[i \in 0..(SKY_CTRL_PTS - 1)] ==
            IF i = 0 THEN FNorm(x[1], x[2]) ELSE FMul(XPow[i - 1], x)
        XPowInv[i \in 0..(SKY_CTRL_PTS - 1)] ==
            IF i = 0 THEN x_pow_inv_0
            ELSE FMul(XPowInv[i - 1], x_pow_inv_scale)
    IN  [ctrl_pt \in 1..SKY_CTRL_PTS |->
            FMul(FMul(<<BezierCoefs[ctrl_pt], 1>>, XPow[ctrl_pt - 1]),
                 XPowInv[ctrl_pt - 1])]

\* The factor coefs[ctrl_pt] * x_pow * x_pow_inv that multiplies the data of
\* each control point, with x_pow and x_pow_inv updated as the loop does.
BezierWeights(eta) ==
    LET x == <<BezierX(eta), BezierDen>>
        x_pow_inv_scale == rcp(FNorm(BezierDen - x[1], BezierDen))
        x_pow_inv_0 == LET y == BezierDen - x[1]
                           d == BezierDen
                       IN  FNorm(y * y * y * y * y, d * d * d * d * d)
        XPow[i \in 0..(SKY_CTRL_PTS - 1)] ==
            IF i = 0 THEN FOne ELSE FMul(XPow[i - 1], x)
        XPowInv[i \in 0..(SKY_CTRL_PTS - 1)] ==
            IF i = 0 THEN x_pow_inv_0
            ELSE FMul(XPowInv[i - 1], x_pow_inv_scale)
    IN  [ctrl_pt \in 1..SKY_CTRL_PTS |->
            FMul(FMul(<<BezierCoefs[ctrl_pt], 1>>, XPow[ctrl_pt - 1]),
                 XPowInv[ctrl_pt - 1])]

\* bezier_interp(dataset, eta): the blend of the SKY_CTRL_PTS slices of
\* dataset, res = sum of BezierWeights(eta)[i] * take(dataset, i - 1); the
\* result is named by its inputs and carries the factor of every slice.
bezier_interp(dataset, eta) == <<dataset, eta, BezierWeights(eta)>>

\* ------------------------------------------------------------------------
\* TGMM dataset and mixture builder
\* ------------------------------------------------------------------------

\* Denominator of the component weights of the dataset: a weight field w
\* denotes w / WeightDen.
WeightDen == (TGMM_COMPONENTS * (TGMM_COMPONENTS - 1)) \div 2

\* m_tgmm_datasets.size()
TgmmDatasetSize ==
    (TURBITDITY_LVLS - 1) * ELEVATION_CTRL_PTS * TGMM_COMPONENTS *
    TGMM_GAUSSIAN_PARAMS

\* Entry i (0-based) of the dataset file ds.  Dataset 1 has mixtures whose
\* weights sum to 1 (WeightDen / WeightDen) in every block; dataset 2 is not
\* normalized.
TgmmEntry(ds, i) ==
    LET block == i \div (TGMM_COMPONENTS * TGMM_GAUSSIAN_PARAMS)
        comp  == (i % (TGMM_COMPONENTS * TGMM_GAUSSIAN_PARAMS)) \div
                 TGMM_GAUSSIAN_PARAMS
        param == i % TGMM_GAUSSIAN_PARAMS
    IN  CASE param = 0 -> 90 + 20 * comp
          [] param = 1 -> 10 + (block % ELEVATION_CTRL_PTS) + 5 * comp
          [] param = 2 -> 20 + comp
          [] param = 3 -> 10 + (block % 3)
          [] OTHER ->
              IF ds = 1 THEN (comp + block) % TGMM_COMPONENTS
              ELSE 1 + ((comp + block) % 3)

\* The mixture weights of the block starting at offset.
BlockWeights(ds, offset) ==
    [c \in 1..TGMM_COMPONENTS |->
        TgmmEntry(ds, offset + (c - 1) * TGMM_GAUSSIAN_PARAMS +
                      (TGMM_GAUSSIAN_PARAMS - 1))]

\* Mutant of TgmmIndices: the high indices are not limited to the grid.
TgmmIndices_HighUnclamped(turbidity, eta) ==
    LET eta_deg   == rad_to_deg(eta)
        eta_idx_f == clip(eta_deg - ElevationFirst, 0,
                          ElevationStep * (ELEVATION_CTRL_PTS - 1))
        t_idx_f   == clip(turbidity - TurbidityFirst * TurbDen, 0,
                          TurbDen * ((TURBITDITY_LVLS - 1) - 1))
        eta_idx_low == eta_idx_f \div ElevationStep
        t_idx_low   == t_idx_f \div TurbDen
    IN  [eta_idx_low  |-> eta_idx_low,
         t_idx_low    |-> t_idx_low,
         eta_idx_high |-> eta_idx_low + 1,
         t_idx_high   |-> t_idx_low + 1,
         eta_rem      |-> eta_idx_f - ElevationStep * eta_idx_low,
         t_rem        |-> t_idx_f - TurbDen * t_idx_low]

\* Index computation of build_tgmm_distribution.  turbidity is in units of
\* 1 / TurbDen, eta in radians (integer degrees); the fractional indices are
\* kept as numerators over ElevationStep and TurbDen.
TgmmIndices(turbidity, eta) ==
    LET eta_deg   == rad_to_deg(eta)
        eta_idx_f == clip(eta_deg - ElevationFirst, 0,
                          ElevationStep * (ELEVATION_CTRL_PTS - 1))
        t_idx_f   == clip(turbidity - TurbidityFirst * TurbDen, 0,
                          TurbDen * ((TURBITDITY_LVLS - 1) - 1))
        eta_idx_low == eta_idx_f \div ElevationStep
        t_idx_low   == t_idx_f \div TurbDen
    IN  [eta_idx_low  |-> eta_idx_low,
         t_idx_low    |-> t_idx_low,
         eta_idx_high |-> Min(eta_idx_low + 1, ELEVATION_CTRL_PTS - 1),
         t_idx_high   |-> Min(t_idx_low + 1, (TURBITDITY_LVLS - 1) - 1),
         eta_rem      |-> eta_idx_f - ElevationStep * eta_idx_low,
         t_rem        |-> t_idx_f - TurbDen * t_idx_low]

\* Denominator of the four bilinear factors.
LerpDen == TurbDen * ElevationStep

\* Mutant of LerpFactors: the last factor repeats the third.
LerpFactors_Repeated(turbidity, eta) ==
    LET ix == TgmmIndices(turbidity, eta)
    IN  << (TurbDen - ix.t_rem) * (ElevationStep - ix.eta_rem),
           (TurbDen - ix.t_rem) * ix.eta_rem,
           ix.t_rem * (ElevationStep - ix.eta_rem),
           ix.t_rem * (ElevationStep - ix.eta_rem) >>

\* lerp_factors[4], as numerators over LerpDen.
LerpFactors(turbidity, eta) ==
    LET ix == TgmmIndices(turbidity, eta)
    IN  << (TurbDen - ix.t_rem) * (ElevationStep - ix.eta_rem),
           (TurbDen - ix.t_rem) * ix.eta_rem,
           ix.t_rem * (ElevationStep - ix.eta_rem),
           ix.t_rem * ix.eta_rem >>

\* indices[4]: offsets of the four corner blocks in the dataset.
TgmmBlockOffsets(turbidity, eta) ==
    LET ix == TgmmIndices(turbidity, eta)
        t_block_size == TgmmDatasetSize \div (TURBITDITY_LVLS - 1)
        result_size  == t_block_size \div ELEVATION_CTRL_PTS
    IN  << ix.t_idx_low * t_block_size + ix.eta_idx_low * result_size,
           ix.t_idx_low * t_block_size + ix.eta_idx_high * result_size,
           ix.t_idx_high * t_block_size + ix.eta_idx_low * result_size,
           ix.t_idx_high * t_block_size + ix.eta_idx_high * result_size >>

\* distrib_params: the four corner mixtures concatenated, the weight field
\* of every gaussian multiplied by the corner's bilinear factor (a weight
\* field of the result denotes w / (WeightDen * LerpDen)).
TgmmTables(ds, turbidity, eta) ==
    LET result_size == TGMM_COMPONENTS * TGMM_GAUSSIAN_PARAMS
        indices == TgmmBlockOffsets(turbidity, eta)
        lerp_factors == LerpFactors(turbidity, eta)
    IN  [k \in 1..(4 * result_size) |->
            LET mixture_idx == (k - 1) \div result_size
                param_idx   == (k - 1) % result_size
                value == TgmmEntry(ds, indices[mixture_idx + 1] + param_idx)
            IN  IF param_idx % TGMM_GAUSSIAN_PARAMS = TGMM_GAUSSIAN_PARAMS - 1
                THEN value * lerp_factors[mixture_idx + 1]
                ELSE value]

\* Mutant of MisWeights: the offset is that of sigma_theta.
MisWeights_SigmaOffset(tables) ==
    [g \in 1..(4 * TGMM_COMPONENTS) |->
        tables[TGMM_GAUSSIAN_PARAMS * (g - 1) + (TGMM_GAUSSIAN_PARAMS - 2) + 1]]

\* mis_weights: every TGMM_GAUSSIAN_PARAMS-th entry of the table, offset
\* TGMM_GAUSSIAN_PARAMS - 1.
MisWeights(tables) ==
    [g \in 1..(4 * TGMM_COMPONENTS) |->
        tables[TGMM_GAUSSIAN_PARAMS * (g - 1) + (TGMM_GAUSSIAN_PARAMS - 1) + 1]]

\* build_tgmm_distribution(turbidity, eta): the table and the discrete
\* distribution built from its weights.
build_tgmm_distribution(ds, turbidity, eta) ==
    LET distrib_params == TgmmTables(ds, turbidity, eta)
    IN  <<distrib_params, MisWeights(distrib_params)>>

\* ------------------------------------------------------------------------
\* Energy balance estimator
\* ------------------------------------------------------------------------

\* Number of entries of WAVELENGTHS and their spacing in nm.
WAVELENGTH_COUNT == 11

WAVELENGTH_STEP == 40

\* WAVELENGTHS<ScalarFloat>[i]
WAVELENGTHS(i) == 320 + WAVELENGTH_STEP * i

\* Base::get_area_ratio(m_sun_half_aperture): a positive factor.
get_area_ratio == 3

\* Calibration factor of the sun luminance in RGB mode: a positive factor.
SPEC_TO_RGB_SUN_CONV == 2

\* channel_idx of the variant
ChannelIdx(v) ==
    IF is_rgb_v(v) THEN <<0, 1, 2>>
    ELSE IF is_spectral_v(v) THEN [i \in 1..CHANNEL_COUNT |-> i - 1]
    ELSE <<0>>

\* An injective code of an interpolated coefficient array.
CoefCode(coefs) ==
    coefs[1][2] + 16 * coefs[1][3] + 1024 * (coefs[2] + 90)

\* Gauss-Legendre quadrature of Base::eval_sky over the hemisphere for one
\* channel: strictly positive, a function of the interpolated coefficients
\* and of the sun direction.
SkyQuadrature(ch, sky_params, sky_radiance, local_sun_dir) ==
    1 + ch + ((CoefCode(sky_params) + 3 * CoefCode(sky_radiance) +
               local_sun_dir[1] + 512 * local_sun_dir[2]) % 9973)

\* Quadrature of Base::eval_sun (times limb darkening) over the sun disk for
\* one channel: the directions with cos_theta < 0 contribute nothing, so the
\* integral is 0 when the whole disk is below the horizon.
SunQuadrature(ch, turbidity, local_sun_dir) ==
    IF local_sun_dir[1] > 90 THEN 0
    ELSE 1 + ch + turbidity + 2 * local_sun_dir[1]

\* luminance(spectrum [, wavelengths])
luminance(spec) == SumSeq(spec)

\* avg_spec without its first entry: 320nm is not supported.
SummedSpectrum(sun_radiance, sky_radiance) ==
    [i \in 1..(CHANNEL_COUNT - 1) |-> sun_radiance[i + 1] + sky_radiance[i + 1]]

\* Mutant of SpectrumOrUniform: dr::any instead of dr::all.
SpectrumOrUniform_Any(spectrum) ==
    IF \E i \in 1..Len(spectrum) : spectrum[i] = 0
    THEN [i \in 1..Len(spectrum) |-> spectrum[i] + 1]
    ELSE spectrum

\* The spectrum handed to the wavelength distribution: an all-zero one is
\* replaced by ones.
SpectrumOrUniform(spectrum) ==
    IF \A i \in 1..Len(spectrum) : spectrum[i] = 0
    THEN [i \in 1..Len(spectrum) |-> spectrum[i] + 1]
    ELSE spectrum

\* ContinuousDistribution<Wavelength>(range, values): a regularly sampled
\* density over range; the default-constructed one is empty.
ContinuousDistribution(range, values) == <<range, values>>

EmptyDistribution == << << >>, << >> >>

\* Mutant of WavelengthRange: the range starts at the unsupported 320nm.
WavelengthRange_FromFirst ==
    <<WAVELENGTHS(0), WAVELENGTHS(WAVELENGTH_COUNT - 1)>>

\* ScalarVector2f range
WavelengthRange == <<WAVELENGTHS(1), WAVELENGTHS(WAVELENGTH_COUNT - 1)>>

\* Mutant of NanToZero: the NaN guard is missing.
NanToZero_Missing(x) == x

\* dr::select(dr::isnan(x), 0.f, x)
NanToZero(x) == IF isnan(x) THEN FZero ELSE x

\* estimate_sky_sun_ratio(): <<balance weight, wavelength distribution>>
estimate_sky_sun_ratio(v, sky_scale, sun_scale, turbidity, sky_params, sky_radiance, sun_angles) ==
    LET range == WavelengthRange
    IN  IF ~is_array_v(v)
        THEN LET sky_weight == FDiv(sky_scale, sky_scale + sun_scale)
             IN  <<NanToZero(sky_weight),
                   ContinuousDistribution(range, <<1, 1>>)>>
        ELSE LET channel_idx == ChannelIdx(v)
                 local_sun_dir == sph_to_dir(sun_angles[2], sun_angles[1])
                 sky_rad == [i \in 1..Len(channel_idx) |->
                     SkyQuadrature(channel_idx[i], sky_params, sky_radiance,
                                   local_sun_dir)]
                 sun_rad == [i \in 1..Len(channel_idx) |->
                     SunQuadrature(channel_idx[i], turbidity, local_sun_dir)]
                 sky_lum == sky_scale * luminance(sky_rad)
                 sun_lum == IF is_rgb_v(v)
                     THEN sun_scale * luminance(sun_rad) * get_area_ratio *
                          SPEC_TO_RGB_SUN_CONV
                     ELSE sun_scale * luminance(sun_rad) * get_area_ratio
                 res == FDiv(sky_lum, sky_lum + sun_lum)
                 res2 == NanToZero(res)
             IN  IF is_spectral_v(v)
                 THEN LET spectrum == SummedSpectrum(sun_rad, sky_rad)
                      IN  <<res2, ContinuousDistribution(
                                      range, SpectrumOrUniform(spectrum))>>
                 ELSE <<res2, EmptyDistribution>>

\* ------------------------------------------------------------------------
\* Sky density and wavelength sampling
\* ------------------------------------------------------------------------

\* One term of the mixture density, weight * gaussian_pdf / volume, by its
\* sign: gaussian_pdf and the truncation volume of a gaussian with non-zero
\* sigmas are positive, a zero sigma makes the volume 0 and the term inf or
\* NaN.
GaussianTerm(tables, gaussian_idx) ==
    LET sigma_phi   == tables[gaussian_idx + 2 + 1]
        sigma_theta == tables[gaussian_idx + 3 + 1]
        weight      == tables[gaussian_idx + 4 + 1]
    IN  IF sigma_phi * sigma_theta = 0 THEN "nan"
        ELSE IF weight = 0 THEN "zero"
        ELSE IF weight > 0 THEN "pos" ELSE "neg"

\* The sign of the sum of the terms of the mixture.
MixtureSum(tables) ==
    LET terms == {GaussianTerm(tables, TGMM_GAUSSIAN_PARAMS * (g - 1)) :
                      g \in 1..(4 * TGMM_COMPONENTS)}
    IN  IF "nan" \in terms \/ {"pos", "neg"} \subseteq terms THEN "nan"
        ELSE IF "pos" \in terms THEN "pos"
        ELSE IF "neg" \in terms THEN "neg" ELSE "zero"

\* angles of sky_pdf: {phi, theta} of local_dir in the frame where the sun
\* azimuth is pi/2.
SkyPdfAngles(local_dir, sun_angles) ==
    LET sph == dir_to_sph(local_dir)
        x0  == sph[2] - (sun_angles[1] - 90)
        x1  == IF x0 < 0 THEN x0 + 360 ELSE x0
        x2  == IF x1 > 360 THEN x1 - 360 ELSE x1
    IN  <<x2, sph[1]>>

\* Mutant of sky_pdf: the lane is not deactivated where sin_theta = 0.
sky_pdf_NoPoleMask(tables, local_dir, sun_angles, active) ==
    LET active1 == active /\ local_dir[1] <= 90
        angles  == SkyPdfAngles(local_dir, sun_angles)
        active2 == active1 /\ angles[2] >= 0 /\ angles[2] <= 90
    IN  IF ~active2 THEN "zero" ELSE MixtureSum(tables)

\* sky_pdf(local_dir, sun_angles, active), one lane, by its sign: "zero",
\* "pos" (positive and finite), "neg" or "nan" (inf or NaN).  The division
\* by max(sin_theta, Epsilon) keeps the sign.
sky_pdf(tables, local_dir, sun_angles, active) ==
    LET sin_theta_zero == IsPole(local_dir[1])
        active1 == active /\ local_dir[1] <= 90 /\ ~sin_theta_zero
        angles  == SkyPdfAngles(local_dir, sun_angles)
        active2 == active1 /\ angles[2] >= 0 /\ angles[2] <= 90
    IN  IF ~active2 THEN "zero" ELSE MixtureSum(tables)

\* Number of entries of Wavelength in a spectral variant.
WavelengthLanes == 4

\* A 1D sample u denotes u / SampleDen.
SampleDen == 2 * WavelengthLanes

\* math::sample_shifted<Wavelength>(sample): the sample and its copies
\* shifted by i / WavelengthLanes, wrapped to [0, 1).
sample_shifted(sample) ==
    [i \in 1..WavelengthLanes |->
        (sample + (i - 1) * (SampleDen \div WavelengthLanes)) % SampleDen]

\* Density of a ContinuousDistribution at its node i: the tabulated value
\* over the integral of the piecewise linear interpolant.
NodePdf(distr, i) ==
    LET range  == distr[1]
        values == distr[2]
        n      == Len(values)
        twice  == SumSeq([k \in 1..(n - 1) |-> values[k] + values[k + 1]])
    IN  FDiv(2 * values[i] * (n - 1), (range[2] - range[1]) * twice)

\* Wavelength of node i of a ContinuousDistribution.
NodeWavelength(distr, i) ==
    distr[1][1] +
    ((i - 1) * (distr[1][2] - distr[1][1])) \div (Len(distr[2]) - 1)

\* ContinuousDistribution::eval_pdf(x) at the wavelength of a node.
eval_pdf(distr, x) ==
    LET range == distr[1]
        n     == Len(distr[2])
    IN  NodePdf(distr,
                1 + ((x - range[1]) * (n - 1)) \div (range[2] - range[1]))

\* ContinuousDistribution::sample_pdf(u): per lane the sampled wavelength
\* (of the node the sample falls to) and the density there.
sample_pdf(distr, w_sample) ==
    LET n == Len(distr[2])
        node(l) == 1 + (w_sample[l] * n) \div SampleDen
    IN  <<[l \in 1..Len(w_sample) |-> NodeWavelength(distr, node(l))],
          [l \in 1..Len(w_sample) |-> NodePdf(distr, node(l))]>>

\* Mutant of sample_wlgth: the density is returned, not its reciprocal.
sample_wlgth_NoRcp(v, distr, sample) ==
    IF is_spectral_v(v)
    THEN LET res == sample_pdf(distr, sample_shifted(sample))
         IN  [op |-> "sample_wlgth", sample |-> sample, error |-> "none",
              wavelengths |-> res[1], weight |-> res[2]]
    ELSE [op |-> "sample_wlgth", sample |-> sample,
          error |-> "NotImplementedError"]

\* sample_wlgth(sample, active): what the call returns or throws.
sample_wlgth(v, distr, sample) ==
    IF is_spectral_v(v)
    THEN LET w_sample == sample_shifted(sample)
             res == sample_pdf(distr, w_sample)
             wavelengths == res[1]
             pdf == res[2]
         IN  [op |-> "sample_wlgth", sample |-> sample, error |-> "none",
              wavelengths |-> wavelengths,
              weight |-> [l \in 1..Len(pdf) |-> rcp(pdf[l])]]
    ELSE [op |-> "sample_wlgth", sample |-> sample,
          error |-> "NotImplementedError"]

\* DiscreteDistribution<Float>::sample_reuse(u): the 0-based index of the
\* entry of pmf whose interval of the cumulative sum holds u, and u rescaled
\* to that interval.
sample_reuse(pmf, u) ==
    LET total == SumSeq(pmf)
        Cdf[i \in 0..Len(pmf)] == IF i = 0 THEN 0 ELSE Cdf[i - 1] + pmf[i]
        idx == CHOOSE i \in 1..Len(pmf) :
                   /\ Cdf[i - 1] * SampleDen <= u * total
                   /\ u * total < Cdf[i] * SampleDen
    IN  <<idx - 1,
          FDiv(u * total - Cdf[idx - 1] * SampleDen, pmf[idx] * SampleDen)>>

\* dr::gather<Gaussian>(m_tgmm_tables, gaussian_idx): {mu_phi, mu_theta,
\* sigma_phi, sigma_theta, weight}
GatherGaussian(tables, gaussian_idx) ==
    [k \in 1..TGMM_GAUSSIAN_PARAMS |->
        tables[TGMM_GAUSSIAN_PARAMS * gaussian_idx + k]]

\* First statement of sample_sky: <<gaussian_idx, temp_sample>>.
SampleSkyDraw(distr, sample) == sample_reuse(distr, sample[1])

\* The rest of sample_sky: the direction sampled from the truncated
\* gaussian, named by what it is computed from.
SampleSkyDirection(tables, drawn, sample, sun_angles) ==
    LET gaussian == GatherGaussian(tables, drawn[1])
        mu    == <<gaussian[1], gaussian[2]>>
        sigma == <<gaussian[3], gaussian[4]>>
    IN  [mu |-> mu, sigma |-> sigma, sample |-> <<drawn[2], sample[2]>>,
         sun_phi |-> sun_angles[1]]

\* sample_sky(sample, sun_angles, active)
sample_sky(tables, distr, sample, sun_angles) ==
    SampleSkyDirection(tables, SampleSkyDraw(distr, sample), sample,
                       sun_angles)

\* get_sky_datasets(sun_angles, channel_idx, active): the entries of
\* m_sky_radiance and m_sky_params of the channel.
get_sky_datasets(sky_radiance, sky_params, channel_idx) ==
    [mean_rad |-> <<sky_radiance, channel_idx>>,
     coefs |-> <<sky_params, channel_idx>>]

\* Mutant of SelfAfterEval: sky_pdf keeps the azimuth it rotated by.
SelfAfterEval_KeepsAzimuth(op, cur) ==
    IF op = "sky_pdf"
    THEN [cur EXCEPT !.m_sun_angles = <<90, cur.m_sun_angles[2]>>]
    ELSE cur

\* The members after a step of the evaluation entry point op: all of them
\* are const member functions.
SelfAfterEval(op, cur) == cur

\* The remainder of an evaluation call after its first statement; started
\* holds what the first statement computed.
EvalFinish(c, started, cur, v) ==
    CASE c.op = "sample_sky" ->
            SampleSkyDirection(cur.m_tgmm_tables, started.drawn, c.sample,
                               started.sun_angles)
      [] c.op = "sky_pdf" ->
            sky_pdf(cur.m_tgmm_tables, c.local_dir, started.sun_angles,
                    c.active)
      [] c.op = "sample_wlgth" ->
            sample_wlgth(v, cur.m_spectral_distr, c.wl_sample)
      [] c.op = "get_sun_angles" -> cur.m_sun_angles
      [] c.op = "get_sky_datasets" ->
            get_sky_datasets(cur.m_sky_radiance, cur.m_sky_params,
                             c.channel_idx)
      [] OTHER -> cur.m_sky_sampling_w

\* The first statement of an evaluation call; the caller passes the sun
\* angles it got from get_sun_angles.
EvalStart(c, cur) ==
    [drawn |-> IF c.op = "sample_sky"
               THEN SampleSkyDraw(cur.m_gaussian_distr, c.sample)
               ELSE << >>,
     sun_angles |-> cur.m_sun_angles]

\* An evaluation call run alone, from its first statement to its return.
EvalResult(c, cur, v) == EvalFinish(c, EvalStart(c, cur), cur, v)

\* ------------------------------------------------------------------------
\* Configuration keys and value sets
\* ------------------------------------------------------------------------

\* Keys of the base class that matter to the sky model.
BaseKeys == {"albedo", "turbidity", "sun_scale", "sky_scale"}

AllKeys == RecordKeys \cup BaseKeys \cup {"sun_direction", "to_world"}

\* Turbidity values 3 and 9 + 1/TurbDen.
TurbidityVals == {3 * TurbDen, 9 * TurbDen + 1}

\* Uniform albedo, in tenths.
AlbedoVals == {3, 8}

ScaleVals == {0, 1}

\* Rotation of the emitter about Z, in degrees.
ToWorldVals == {90}

\* Unit sun directions in world space.
DirVals == {<<0, 0>>, <<45, 90>>, <<88, 0>>, <<100, 90>>}

\* Contents a default-constructed m_time / m_location may hold in direct
\* mode, where the constructor never assigns them.
UninitRecords ==
    {r \in Records :
        \A f \in RecordKeys \ {"latitude"} :
            IF f \in TimeFields THEN r[1][f] = 0 ELSE r[2][f] = 0}

Unset == << >>

\* ------------------------------------------------------------------------
\* Constructor
\* ------------------------------------------------------------------------

\* Mutant of BothModesGiven: the check forgets the 'second' property.
BothModesGiven_NoSecond(names) ==
    "sun_direction" \in names /\ names \cap (RecordKeys \ {"second"}) # {}

\* The constructor's check of the properties: both modes given.
BothModesGiven(names) ==
    "sun_direction" \in names /\ names \cap RecordKeys # {}

\* Sections UPDATE ANGLES, Compute datasets and AVERAGE RADIANCE of the
\* constructor, from the members set before them.
ConstructorTables(v, to_world, ds, turbidity, albedo, sky_scale, sun_scale, sun_dir) ==
    LET local_sun_dir == InverseTransformDir(to_world, sun_dir)
        sph == dir_to_sph(local_sun_dir)
        sun_angles == <<sph[2], sph[1]>>
        sun_eta == 90 - sun_angles[2]
        sky_params == bezier_interp(
            bilinear_interp("sky_params", albedo, turbidity), sun_eta)
        sky_radiance == bezier_interp(
            bilinear_interp("sky_rad", albedo, turbidity), sun_eta)
        tgmm == build_tgmm_distribution(ds, turbidity, sun_eta)
        est == estimate_sky_sun_ratio(v, sky_scale, sun_scale, turbidity,
                                      sky_params, sky_radiance, sun_angles)
    IN  [m_sun_angles     |-> sun_angles,
         m_sky_params     |-> sky_params,
         m_sky_radiance   |-> sky_radiance,
         m_tgmm_tables    |-> tgmm[1],
         m_gaussian_distr |-> tgmm[2],
         m_sky_sampling_w |-> est[1],
         m_spectral_distr |-> est[2]]

\* m_sun_dir as the constructor sets it in location/time mode.
RecordSunDir(to_world, time, location) ==
    LET sc == sun_coordinates(time, location)
    IN  TransformDir(to_world, sph_to_dir(sc[1], sc[2]))

\* ------------------------------------------------------------------------
\* parameters_changed
\* ------------------------------------------------------------------------

\* string::contains(keys, word)
CHANGED(keys, word) == word \in keys

changed_atmosphere(keys) ==
    keys = {} \/ CHANGED(keys, "albedo") \/ CHANGED(keys, "turbidity")

\* Mutant of changed_time_record: an atmosphere change also counts as a
\* change of the time record.
changed_time_record_Atmosphere(keys, active_record) ==
    changed_atmosphere(keys) \/ (active_record /\ keys \cap RecordKeys # {})

changed_time_record(keys, active_record) ==
    keys = {} \/ (active_record /\
        (CHANGED(keys, "timezone") \/ CHANGED(keys, "year") \/
         CHANGED(keys, "day") \/ CHANGED(keys, "month") \/
         CHANGED(keys, "hour") \/ CHANGED(keys, "minute") \/
         CHANGED(keys, "second") \/ CHANGED(keys, "latitude") \/
         CHANGED(keys, "longitude")))

changed_sun_dir(keys, active_record) ==
    (~active_record /\ CHANGED(keys, "sun_direction")) \/
    changed_time_record(keys, active_record)

\* "Update sun angles": <<m_sun_dir, m_sun_angles>> after the block.
UpdateSunAngles(keys, cur) ==
    IF changed_time_record(keys, cur.m_active_record)
    THEN LET sc == sun_coordinates(cur.m_time, cur.m_location)
         IN  <<TransformDir(cur.m_to_world, sph_to_dir(sc[1], sc[2])),
               <<sc[2], sc[1]>>>>
    ELSE IF changed_sun_dir(keys, cur.m_active_record)
    THEN LET sph == dir_to_sph(
                 InverseTransformDir(cur.m_to_world, cur.m_sun_dir))
         IN  <<cur.m_sun_dir, <<sph[2], sph[1]>>>>
    ELSE <<cur.m_sun_dir, cur.m_sun_angles>>

\* "Update sky": <<m_sky_params, m_sky_radiance>> after the block.
UpdateSky(keys, cur, eta) ==
    IF changed_sun_dir(keys, cur.m_active_record) \/ changed_atmosphere(keys)
    THEN <<bezier_interp(bilinear_interp(
               "sky_params", cur.m_albedo, cur.m_turbidity), eta),
           bezier_interp(bilinear_interp(
               "sky_rad", cur.m_albedo, cur.m_turbidity), eta)>>
    ELSE <<cur.m_sky_params, cur.m_sky_radiance>>

\* "Update TGMM (no dependence on albedo)": <<m_tgmm_tables,
\* m_gaussian_distr>> after the block.
UpdateTgmm(keys, cur, eta) ==
    IF changed_sun_dir(keys, cur.m_active_record) \/
       CHANGED(keys, "turbidity")
    THEN build_tgmm_distribution(cur.m_tgmm_datasets, cur.m_turbidity, eta)
    ELSE <<cur.m_tgmm_tables, cur.m_gaussian_distr>>

\* Mutant of UpdateBalance: the estimate is refreshed only when the sky was.
UpdateBalance_OnlyWithSky(keys, v, cur, sky_params, sky_radiance, sun_angles) ==
    IF changed_sun_dir(keys, cur.m_active_record) \/ changed_atmosphere(keys)
    THEN estimate_sky_sun_ratio(v, cur.m_sky_scale, cur.m_sun_scale,
                                cur.m_turbidity, sky_params, sky_radiance,
                                sun_angles)
    ELSE <<cur.m_sky_sampling_w, cur.m_spectral_distr>>

\* "Update sky-sun ratio and radiance distribution": <<m_sky_sampling_w,
\* m_spectral_distr>> after the block, from the members updated above.
UpdateBalance(keys, v, cur, sky_params, sky_radiance, sun_angles) ==
    estimate_sky_sun_ratio(v, cur.m_sky_scale, cur.m_sun_scale,
                           cur.m_turbidity, sky_params, sky_radiance,
                           sun_angles)

\* The members after parameters_changed(keys); cur is the record of all
\* members when it is called.
parameters_changed(keys, v, cur) ==
    LET sun == UpdateSunAngles(keys, cur)
        eta == 90 - sun[2][2]
        sky == UpdateSky(keys, cur, eta)
        tgmm == UpdateTgmm(keys, cur, eta)
        est == UpdateBalance(keys, v, cur, sky[1], sky[2], sun[2])
    IN  [cur EXCEPT !.m_sun_dir = sun[1],
                    !.m_sun_angles = sun[2],
                    !.m_sky_params = sky[1],
                    !.m_sky_radiance = sky[2],
                    !.m_tgmm_tables = tgmm[1],
                    !.m_gaussian_distr = tgmm[2],
                    !.m_sky_sampling_w = est[1],
                    !.m_spectral_distr = est[2]]

\* ------------------------------------------------------------------------
\* State
\* ------------------------------------------------------------------------

VARIABLES
    variant,    \* the rendering variant the plugin is compiled for
    pc,         \* "new": constructor not run, "ready": constructed,
                \* "error": the constructor raised the configuration error
    props,      \* the Properties handed to the constructor
    self,       \* the members of the emitter
    last_call,  \* the last call made on the emitter and its key set
    faithful,   \* every parameters_changed so far followed an edit and
                \* named exactly the edited fields
    ret,        \* what the last evaluation call returned
    calls       \* per worker thread, the evaluation call it is in or has
                \* returned from

vars == <<variant, pc, props, self, last_call, faithful, ret, calls>>

Threads == 1..NbThreads

\* No thread has called the emitter.
NoCalls == [t \in Threads |-> [state |-> "idle"]]

\* Members before the constructor has assigned them.
NoEmitter ==
    [m_turbidity |-> 0, m_albedo |-> 0, m_sky_scale |-> 0, m_sun_scale |-> 0,
     m_to_world |-> 0, m_tgmm_datasets |-> 0,
     m_active_record |-> FALSE, m_sun_dir |-> Unset,
     m_time |-> DefaultTime, m_location |-> DefaultLocation,
     m_sun_angles |-> Unset, m_sky_params |-> Unset, m_sky_radiance |-> Unset,
     m_tgmm_tables |-> Unset, m_gaussian_distr |-> Unset,
     m_sky_sampling_w |-> Unset, m_spectral_distr |-> Unset]

\* The property sets the constructor is given: no or one location/time
\* field (location/time mode), a sun direction alone (direct mode), a sun
\* direction with one or two location/time fields (rejected).
PropNameSets ==
    {{}, {"hour"}, {"sun_direction"},
     {"sun_direction", "hour", "year"}} \cup
    {{"sun_direction", k} : k \in RecordKeys}

\* The 'sun_direction' property: a vector of any length.
PropSunDirection == [dir |-> <<45, 90>>, len |-> 2]

MainVariants == {"scalar_rgb", "llvm_rgb", "llvm_spectral"}

MainDatasets == {1}

Init ==
    /\ variant \in MainVariants
    /\ pc = "new"
    /\ props \in [names : PropNameSets]
    /\ self = NoEmitter
    /\ last_call = [op |-> "none", keys |-> {}]
    /\ faithful = TRUE
    /\ ret = [op |-> "none"]
    /\ calls = NoCalls

\* Mutant of ActiveRecord: the flag is set in both branches.
ActiveRecord_Always(direct) == TRUE

\* m_active_record as the constructor sets it: false in the branch taken
\* when 'sun_direction' is given, true in the other.
ActiveRecord(direct) == ~direct

\* props.get<ScalarFloat>(field, default) for the fields named in names.
PropsRecord(names, fields) == [f \in fields |-> IF f \in names THEN 1 ELSE 0]

\* SunskyEmitter(props) when the properties pass the check.  direct: whether
\* 'sun_direction' is given; sun_direction, time, location: the values read
\* from props; Base(props) reads turbidity, albedo, the scales and to_world;
\* the TGMM dataset file is ds; uninit is what the unassigned records hold
\* in direct mode.
Constructor(v, direct, sun_direction, time, location, turbidity, albedo, sky_scale, sun_scale, to_world, ds, uninit) ==
    LET sun_dir == IF direct THEN normalize(sun_direction)
                   ELSE RecordSunDir(to_world, time, location)
        tables == ConstructorTables(v, to_world, ds, turbidity, albedo,
                                    sky_scale, sun_scale, sun_dir)
    IN  [m_turbidity |-> turbidity, m_albedo |-> albedo,
         m_sky_scale |-> sky_scale, m_sun_scale |-> sun_scale,
         m_to_world |-> to_world, m_tgmm_datasets |-> ds,
         m_active_record |-> ActiveRecord(direct), m_sun_dir |-> sun_dir,
         m_time |-> IF direct THEN uninit[1] ELSE time,
         m_location |-> IF direct THEN uninit[2] ELSE location,
         m_sun_angles |-> tables.m_sun_angles,
         m_sky_params |-> tables.m_sky_params,
         m_sky_radiance |-> tables.m_sky_radiance,
         m_tgmm_tables |-> tables.m_tgmm_tables,
         m_gaussian_distr |-> tables.m_gaussian_distr,
         m_sky_sampling_w |-> tables.m_sky_sampling_w,
         m_spectral_distr |-> tables.m_spectral_distr]

\* The constructor rejects the properties: Log(Error, ...) throws before any
\* member of this class is assigned.
ConstructError ==
    /\ pc = "new"
    /\ BothModesGiven(props.names)
    /\ pc' = "error"
    /\ last_call' = [op |-> "construct", keys |-> {}]
    /\ UNCHANGED <<variant, props, self, faithful, ret, calls>>

\* The constructor accepts the properties and fills every member.  The
\* values Base(props) and the constructor read are drawn from the given
\* sets.
ConstructWith(turbidities, albedos, scales, sun_directions, datasets) ==
    /\ pc = "new"
    /\ ~BothModesGiven(props.names)
    /\ \E turbidity \in turbidities, albedo \in albedos,
          sky_scale \in scales, sun_scale \in scales,
          sun_direction \in sun_directions, to_world \in ToWorldVals,
          ds \in datasets, uninit \in UninitRecords :
            self' = Constructor(
                variant, "sun_direction" \in props.names, sun_direction,
                PropsRecord(props.names, TimeFields),
                PropsRecord(props.names, LocationFields), turbidity, albedo,
                sky_scale, sun_scale, to_world, ds, uninit)
    /\ pc' = "ready"
    /\ last_call' = [op |-> "construct", keys |-> {}]
    /\ UNCHANGED <<variant, props, faithful, ret, calls>>

ConstructOk ==
    ConstructWith(TurbidityVals, AlbedoVals, ScaleVals, {PropSunDirection},
                  MainDatasets)

\* The values a write to the exposed field k can leave in it: any value of
\* the field's set other than the current one.
EditField(cur, k) ==
    CASE k = "albedo" ->
            {[cur EXCEPT !.m_albedo = x] : x \in AlbedoVals \ {cur.m_albedo}}
      [] k = "turbidity" ->
            {[cur EXCEPT !.m_turbidity = x] :
                x \in TurbidityVals \ {cur.m_turbidity}}
      [] k = "sun_scale" ->
            {[cur EXCEPT !.m_sun_scale = x] :
                x \in ScaleVals \ {cur.m_sun_scale}}
      [] k = "sky_scale" ->
            {[cur EXCEPT !.m_sky_scale = x] :
                x \in ScaleVals \ {cur.m_sky_scale}}
      [] k = "sun_direction" ->
            {[cur EXCEPT !.m_sun_dir = x] : x \in DirVals \ {cur.m_sun_dir}}
      [] k \in TimeFields ->
            {[cur EXCEPT !.m_time[k] = 1 - cur.m_time[k]]}
      [] OTHER ->
            {[cur EXCEPT !.m_location[k] = 1 - cur.m_location[k]]}

RECURSIVE EditFields(_, _)
EditFields(cur, keys) ==
    IF keys = {} THEN {cur}
    ELSE LET k == CHOOSE x \in keys : TRUE
         IN  UNION {EditField(c, k) : c \in EditFields(cur, keys \ {k})}

\* The fields traverse() exposes, by mode, with those of the base class.
ExposedKeys(active_record) ==
    BaseKeys \cup (IF active_record THEN RecordKeys ELSE {"sun_direction"})

\* The key sets of the updates: every exposed field alone, and some pairs.
UpdateKeySets(active_record) ==
    {{k} : k \in ExposedKeys(active_record)} \cup
    {ks \in {{"albedo", "turbidity"}, {"albedo", "hour"},
             {"turbidity", "sun_direction"}, {"hour", "latitude"}} :
        ks \subseteq ExposedKeys(active_record)}

\* The framework writes new values to the fields named by keys and notifies
\* the emitter with exactly these keys.
Update ==
    /\ pc = "ready"
    /\ \E keys \in UpdateKeySets(self.m_active_record) :
        \E e \in EditFields(self, keys) :
            /\ <<e.m_time, e.m_location>> \in Records
            /\ self' = parameters_changed(keys, variant, e)
            /\ last_call' = [op |-> "parameters_changed", keys |-> keys]
    /\ UNCHANGED <<variant, pc, props, faithful, ret, calls>>

NotifyKeySets ==
    {{}} \cup
    {{k} : k \in {"to_world", "sun_direction", "hour", "second", "albedo"}}

\* parameters_changed(keys) with no field edited: the empty key set, keys of
\* either mode, keys unrelated to the sky model.
Notify ==
    /\ pc = "ready"
    /\ \E keys \in NotifyKeySets :
        /\ self' = parameters_changed(keys, variant, self)
        /\ last_call' = [op |-> "parameters_changed", keys |-> keys]
    /\ faithful' = FALSE
    /\ UNCHANGED <<variant, pc, props, ret, calls>>

Next == ConstructError \/ ConstructOk \/ Update \/ Notify

Spec == Init /\ [][Next]_vars

\* ------------------------------------------------------------------------
\* Mixture specification: the mixture builder over the whole range of
\* turbidities and sun elevations, and the sky density
\* ------------------------------------------------------------------------

\* Turbidities from 1 to 11 (the grid is 2..10) in steps of 1 / TurbDen.
TgmmTurbidities == TurbDen..(11 * TurbDen)

\* Sun directions of every integer zenith angle from 0 to pi.
TgmmSunDirections == {[dir |-> <<theta, 90>>, len |-> 1] : theta \in 0..180}

TgmmDatasets == {1, 2}

\* Directions and masks sky_pdf is evaluated with.
SkyPdfDirs == {<<0, 0>>, <<30, 0>>, <<60, 270>>, <<120, 90>>}

InitTgmm ==
    /\ variant = "scalar_rgb"
    /\ pc = "new"
    /\ props = [names |-> {"sun_direction"}]
    /\ self = NoEmitter
    /\ last_call = [op |-> "none", keys |-> {}]
    /\ faithful = TRUE
    /\ ret = [op |-> "none"]
    /\ calls = NoCalls

ConstructTgmm ==
    ConstructWith(TgmmTurbidities, {3}, {1}, TgmmSunDirections, TgmmDatasets)

\* A call of sky_pdf with the emitter's sun angles.
SkyPdf ==
    /\ pc = "ready"
    /\ \E local_dir \in SkyPdfDirs, active \in BOOLEAN :
        ret' = [op |-> "sky_pdf", local_dir |-> local_dir, active |-> active,
                value |-> sky_pdf(self.m_tgmm_tables, local_dir,
                                  self.m_sun_angles, active)]
    /\ UNCHANGED <<variant, pc, props, self, last_call, faithful, calls>>

NextTgmm == ConstructTgmm \/ SkyPdf

SpecTgmm == InitTgmm /\ [][NextTgmm]_vars

\* ------------------------------------------------------------------------
\* Balance specification: the energy balance estimator and the wavelength
\* sampling in every variant
\* ------------------------------------------------------------------------

BalanceScales == 0..2

BalanceTurbidities == {3 * TurbDen, 6 * TurbDen + 1}

\* Sun above the horizon, on it and below it.
BalanceSunDirections ==
    {[dir |-> <<theta, 90>>, len |-> 1] : theta \in {45, 90, 100}}

InitBalance ==
    /\ variant \in Variants
    /\ pc = "new"
    /\ props = [names |-> {"sun_direction"}]
    /\ self = NoEmitter
    /\ last_call = [op |-> "none", keys |-> {}]
    /\ faithful = TRUE
    /\ ret = [op |-> "none"]
    /\ calls = NoCalls

ConstructBalance ==
    ConstructWith(BalanceTurbidities, {3}, BalanceScales,
                  BalanceSunDirections, MainDatasets)

\* A call of sample_wlgth.
SampleWlgth ==
    /\ pc = "ready"
    /\ \E sample \in 0..(SampleDen - 1) :
        ret' = sample_wlgth(variant, self.m_spectral_distr, sample)
    /\ UNCHANGED <<variant, pc, props, self, last_call, faithful, calls>>

NextBalance == ConstructBalance \/ SampleWlgth

SpecBalance == InitBalance /\ [][NextBalance]_vars

\* ------------------------------------------------------------------------
\* Evaluation specification: worker threads calling the evaluation entry
\* points concurrently, with no parameters_changed
\* ------------------------------------------------------------------------

\* The evaluation calls the threads make.
EvalCalls ==
    {[op |-> "sample_sky", sample |-> s] : s \in {<<1, 4>>, <<6, 2>>}} \cup
    {[op |-> "sky_pdf", local_dir |-> d, active |-> TRUE] :
        d \in {<<0, 0>>, <<30, 0>>}} \cup
    {[op |-> "sample_wlgth", wl_sample |-> u] : u \in {0, 3}} \cup
    {[op |-> "get_sun_angles"], [op |-> "get_sky_datasets", channel_idx |-> 0],
     [op |-> "get_sky_sampling_weight"]}

InitEval ==
    /\ variant \in {"scalar_rgb", "llvm_spectral"}
    /\ pc = "new"
    /\ props = [names |-> {"sun_direction"}]
    /\ self = NoEmitter
    /\ last_call = [op |-> "none", keys |-> {}]
    /\ faithful = TRUE
    /\ ret = [op |-> "none"]
    /\ calls = NoCalls

ConstructEval ==
    ConstructWith({3 * TurbDen + 1}, {3}, {1},
                  {[dir |-> <<theta, 90>>, len |-> 1] : theta \in {40, 100}},
                  MainDatasets)

\* Thread t enters an evaluation entry point and runs its first statement.
BeginCall(t) ==
    /\ pc = "ready"
    /\ calls[t].state # "running"
    /\ \E c \in EvalCalls :
        /\ calls' = [calls EXCEPT ![t] =
                        [state |-> "running", call |-> c,
                         started |-> EvalStart(c, self)]]
        /\ self' = SelfAfterEval(c.op, self)
    /\ UNCHANGED <<variant, pc, props, last_call, faithful, ret>>

\* Thread t runs the rest of its call and returns.
EndCall(t) ==
    /\ pc = "ready"
    /\ calls[t].state = "running"
    /\ calls' = [calls EXCEPT ![t] =
                    [state |-> "done", call |-> calls[t].call,
                     result |-> EvalFinish(calls[t].call, calls[t].started,
                                           self, variant)]]
    /\ self' = SelfAfterEval(calls[t].call.op, self)
    /\ UNCHANGED <<variant, pc, props, last_call, faithful, ret>>

NextEval ==
    \/ ConstructEval
    \/ \E t \in Threads : BeginCall(t)
    \/ \E t \in Threads : EndCall(t)

SpecEval == InitEval /\ [][NextEval]_vars

\* ------------------------------------------------------------------------
\* Spectrum specification: the wavelength distribution of the spectral
\* branch of estimate_sky_sun_ratio over sun and sky radiances
\* ------------------------------------------------------------------------

\* Radiances per channel: all zero, or a value on the channels of one of
\* a few channel sets and zero elsewhere.
RadianceVals ==
    {[i \in 1..CHANNEL_COUNT |-> IF i \in chans THEN a ELSE 0] :
        chans \in {{}, {1}, {2}, {CHANNEL_COUNT}, 1..CHANNEL_COUNT},
        a \in 1..3}

InitSpectrum ==
    /\ variant = "llvm_spectral"
    /\ pc = "new"
    /\ props = [names |-> {"sun_direction"}]
    /\ self = NoEmitter
    /\ last_call = [op |-> "none", keys |-> {}]
    /\ faithful = TRUE
    /\ ret = [op |-> "none"]
    /\ calls = NoCalls

\* The spectral branch of estimate_sky_sun_ratio from the integrated
\* radiances to the distribution.
SpectralDistr ==
    /\ is_spectral_v(variant)
    /\ \E sun_radiance \in RadianceVals, sky_radiance \in RadianceVals :
        ret' = [op |-> "spectral_distr", sun_radiance |-> sun_radiance,
                sky_radiance |-> sky_radiance,
                distr |-> ContinuousDistribution(
                    WavelengthRange,
                    SpectrumOrUniform(
                        SummedSpectrum(sun_radiance, sky_radiance)))]
    /\ UNCHANGED <<variant, pc, props, self, last_call, faithful, calls>>

NextSpectrum == SpectralDistr

SpecSpectrum == InitSpectrum /\ [][NextSpectrum]_vars

\* ------------------------------------------------------------------------
\* Properties
\* ------------------------------------------------------------------------

\* The derived members of cur, in the order of ConstructorTables.
DerivedOf(cur) ==
    [m_sun_angles     |-> cur.m_sun_angles,
     m_sky_params     |-> cur.m_sky_params,
     m_sky_radiance   |-> cur.m_sky_radiance,
     m_tgmm_tables    |-> cur.m_tgmm_tables,
     m_gaussian_distr |-> cur.m_gaussian_distr,
     m_sky_sampling_w |-> cur.m_sky_sampling_w,
     m_spectral_distr |-> cur.m_spectral_distr]

\* What a fresh construction from the configuration held in cur computes:
\* the sun direction comes from the records in location/time mode and from
\* the sun direction in direct mode.
FreshTables(v, cur) ==
    ConstructorTables(
        v, cur.m_to_world, cur.m_tgmm_datasets, cur.m_turbidity, cur.m_albedo,
        cur.m_sky_scale, cur.m_sun_scale,
        IF cur.m_active_record
        THEN RecordSunDir(cur.m_to_world, cur.m_time, cur.m_location)
        ELSE normalize([dir |-> cur.m_sun_dir, len |-> 1]))


\* C1: constructing with 'sun_direction' and any of the nine location/time
\* properties ends in the configuration error, and when it is raised none of
\* the derived tables (coefficients, mixture table, selection distribution,
\* balance weight, wavelength distribution) has been computed.
C1_ErrorBeforeTables ==
    (pc # "new" /\ "sun_direction" \in props.names /\
     props.names \cap RecordKeys # {}) =>
        /\ pc = "error"
        /\ self.m_sky_params = Unset
        /\ self.m_sky_radiance = Unset
        /\ self.m_tgmm_tables = Unset
        /\ self.m_gaussian_distr = Unset
        /\ self.m_sky_sampling_w = Unset
        /\ self.m_spectral_distr = Unset

C1_Witness ==
    /\ pc = "error"
    /\ props.names = {"sun_direction", "second"}
    /\ self.m_tgmm_tables = Unset

\* C2: parameters_changed with the key set {"albedo"} leaves m_tgmm_tables
\* and m_gaussian_distr as they were before the call, in both modes.
C2_AlbedoKeepsMixture ==
    [][(pc = "ready" /\
        last_call' = [op |-> "parameters_changed", keys |-> {"albedo"}]) =>
            /\ self'.m_tgmm_tables = self.m_tgmm_tables
            /\ self'.m_gaussian_distr = self.m_gaussian_distr]_vars

C2_Witness ==
    /\ pc = "ready"
    /\ last_call = [op |-> "parameters_changed", keys |-> {"albedo"}]
    /\ faithful
    /\ ~self.m_active_record
    /\ self.m_tgmm_tables # Unset

\* C3: parameters_changed with an empty key set recomputes everything: after
\* it the solar angles, coefficients, mixture, balance weight and wavelength
\* distribution are those of a fresh construction from the current
\* configuration, and in direct mode the configured sun direction is left
\* as it was.
C3_EmptyKeysRecomputeAll ==
    [][(pc = "ready" /\
        last_call' = [op |-> "parameters_changed", keys |-> {}]) =>
            /\ ~self.m_active_record => self'.m_sun_dir = self.m_sun_dir
            /\ DerivedOf(self') =
                   FreshTables(variant, [self' EXCEPT
                                            !.m_sun_dir = self.m_sun_dir])]_vars

\* C4: after any sequence of edits, each followed by parameters_changed with
\* the non-empty key set of exactly the edited fields, the cached derived
\* state is what a fresh construction from the current configuration
\* computes.
C4_SelectiveEqualsFresh ==
    (pc = "ready" /\ faithful) =>
        DerivedOf(self) = FreshTables(variant, self)

\* C5: every parameters_changed, whatever its key set, stores the balance
\* weight and the wavelength distribution that estimate_sky_sun_ratio
\* computes from the state it leaves.
C5_BalanceAlwaysRefreshed ==
    (pc = "ready" /\ last_call.op = "parameters_changed") =>
        <<self.m_sky_sampling_w, self.m_spectral_distr>> =
            estimate_sky_sun_ratio(
                variant, self.m_sky_scale, self.m_sun_scale, self.m_turbidity,
                self.m_sky_params, self.m_sky_radiance, self.m_sun_angles)

C5_Witness ==
    /\ pc = "ready"
    /\ last_call = [op |-> "parameters_changed", keys |-> {"to_world"}]
    /\ self.m_sky_sampling_w # Unset

C7_SampleWlgth ==
    ret.op = "sample_wlgth" =>
        IF ~is_spectral_v(variant)
        THEN ret.error = "NotImplementedError"
        ELSE /\ ret.error = "none"
             /\ \A l \in 1..WavelengthLanes :
                    ret.weight[l] =
                        rcp(eval_pdf(self.m_spectral_distr,
                                     ret.wavelengths[l]))

C7_Witness ==
    /\ ret.op = "sample_wlgth"
    /\ variant = "llvm_spectral"
    /\ ret.error = "none"
    /\ \E l \in 1..WavelengthLanes : ret.wavelengths[l] # ret.wavelengths[1]

\* C8 as stated: in every non-spectral variant the wavelength distribution
\* is the flat two-point distribution {1, 1} over
\* [WAVELENGTHS[1], WAVELENGTHS[WAVELENGTH_COUNT - 1]].
C8_Original ==
    (pc = "ready" /\ ~is_spectral_v(variant)) =>
        self.m_spectral_distr =
            ContinuousDistribution(
                <<WAVELENGTHS(1), WAVELENGTHS(WAVELENGTH_COUNT - 1)>>,
                <<1, 1>>)

\* C8: in every scalar variant, spectral or not, the wavelength distribution
\* is the flat two-point distribution {1, 1} over
\* [WAVELENGTHS[1], WAVELENGTHS[WAVELENGTH_COUNT - 1]]; in the vectorized
\* non-spectral variants it is the default-constructed, empty distribution.
C8_FlatOnlyInScalar ==
    pc = "ready" =>
        /\ ~is_array_v(variant) =>
               self.m_spectral_distr =
                   ContinuousDistribution(
                       <<WAVELENGTHS(1), WAVELENGTHS(WAVELENGTH_COUNT - 1)>>,
                       <<1, 1>>)
        /\ (is_array_v(variant) /\ ~is_spectral_v(variant)) =>
               self.m_spectral_distr = EmptyDistribution

C8_Witness ==
    /\ pc = "ready"
    /\ variant = "llvm_mono"
    /\ self.m_spectral_distr = EmptyDistribution

\* C9: for every turbidity and sun elevation, clamped ones included, the
\* four bilinear factors of build_tgmm_distribution are each in [0, 1] and
\* sum to 1, and when the component weights of each of the four corner
\* mixtures sum to 1 the weights of the combined table sum to 1.
C9_FactorsSumToOne ==
    pc = "ready" =>
        LET eta == 90 - self.m_sun_angles[2]
            lerp_factors == LerpFactors(self.m_turbidity, eta)
            indices == TgmmBlockOffsets(self.m_turbidity, eta)
        IN  /\ \A i \in 1..4 :
                   lerp_factors[i] >= 0 /\ lerp_factors[i] <= LerpDen
            /\ SumSeq(lerp_factors) = LerpDen
            /\ (\A i \in 1..4 :
                    SumSeq(BlockWeights(self.m_tgmm_datasets, indices[i])) =
                        WeightDen) =>
                   SumSeq(MisWeights(self.m_tgmm_tables)) = WeightDen * LerpDen

C9_Witness ==
    /\ pc = "ready"
    /\ self.m_tgmm_datasets = 1
    /\ self.m_turbidity > TurbDen * TURBITDITY_LVLS
    /\ self.m_sun_angles[2] > 90
    /\ SumSeq(MisWeights(self.m_tgmm_tables)) = WeightDen * LerpDen

\* The scenario of C10: turbidity 3, albedo 0.3, sun elevation pi/4.
ZenithScenario ==
    /\ pc = "ready"
    /\ self.m_turbidity = 3 * TurbDen
    /\ self.m_albedo = 3
    /\ self.m_sun_angles[2] = 45

\* C10 as stated: in the scenario sky_pdf at the zenith direction with an
\* active lane returns a non-zero, finite, positive value.
C10_Original ==
    (ZenithScenario /\ ret.op = "sky_pdf" /\ ret.active /\
     ret.local_dir = <<0, 0>>) =>
        ret.value = "pos"

\* C10: sky_pdf with an active lane returns exactly 0 at the zenith
\* direction, where sin_theta = 0 deactivates the lane, in the scenario as
\* in every configuration; at a direction strictly between the zenith and
\* the horizon it returns a positive finite value.
C10_ZenithIsZero ==
    (pc = "ready" /\ ret.op = "sky_pdf" /\ ret.active) =>
        /\ IsPole(ret.local_dir[1]) => ret.value = "zero"
        /\ (ZenithScenario /\ ret.local_dir[1] > 0 /\ ret.local_dir[1] < 90)
               => ret.value = "pos"

C10_Witness ==
    /\ ZenithScenario
    /\ ret.op = "sky_pdf"
    /\ ret.active
    /\ ret.local_dir = <<0, 0>>
    /\ ret.value = "zero"

\* C11: bezier_interp called with eta = 0 returns exactly the data of
\* control point 0: the factor of control point 0 is 1 and the factors of
\* control points 1..5 are 0, for both datasets and whatever the albedo and
\* the turbidity.
C11_EtaZeroIsFirstControlPoint ==
    (pc = "ready" /\ 90 - self.m_sun_angles[2] = 0) =>
        \A coefs \in {self.m_sky_params, self.m_sky_radiance} :
            /\ coefs[3][1] = FOne
            /\ \A ctrl_pt \in 2..SKY_CTRL_PTS : coefs[3][ctrl_pt] = FZero

C11_Witness ==
    /\ pc = "ready"
    /\ self.m_sun_angles[2] = 90
    /\ self.m_turbidity = 11 * TurbDen
    /\ self.m_sky_radiance[3][1] = FOne

\* C14: in bezier_interp the value x lies in [0, 1 - epsilon] for every eta
\* the emitter passes, a negative eta included, so that 1 - x is at least
\* epsilon.
C14_XInUnitRange ==
    pc = "ready" =>
        LET x == BezierX(90 - self.m_sun_angles[2])
        IN  /\ x >= 0
            /\ x <= OneMinusEpsilon
            /\ BezierDen - x >= 1

\* C12: m_active_record is fixed by the constructor, false exactly when
\* 'sun_direction' was given, and no edit of an exposed field and no
\* parameters_changed changes it afterwards.
C12_ModeIsFixed ==
    [][/\ pc' = "ready" =>
              self'.m_active_record = ("sun_direction" \notin props.names)
       /\ pc = "ready" =>
              self'.m_active_record = self.m_active_record]_vars

C12_Witness ==
    /\ pc = "ready"
    /\ last_call = [op |-> "parameters_changed", keys |-> {"hour"}]
    /\ ~self.m_active_record

\* C13: a step of sample_sky, sky_pdf, sample_wlgth, get_sun_angles,
\* get_sky_datasets or get_sky_sampling_weight leaves every member of the
\* emitter unchanged, and whatever the interleaving of the threads every
\* call returns what it returns when run alone.
C13_EvaluationIsReadOnly ==
    [][calls' # calls =>
          /\ self' = self
          /\ \A t \in Threads :
                 calls'[t].state = "done" =>
                     calls'[t].result =
                         EvalResult(calls'[t].call, self', variant)]_vars

C13_Witness ==
    /\ calls[1].state = "done"
    /\ calls[1].call.op = "sample_sky"
    /\ calls[2].state = "running"
    /\ calls[2].call.op = "sky_pdf"

\* C15: after construction and after every parameters_changed,
\* m_gaussian_distr holds exactly the weight fields (every 5th entry,
\* offset 4) of the current m_tgmm_tables in the order of the components,
\* and the component that sample_sky gathers for a drawn index is the one
\* whose weight the index was drawn with.
C15_SelectionMatchesTable ==
    pc = "ready" =>
        /\ Len(self.m_gaussian_distr) * 5 = Len(self.m_tgmm_tables)
        /\ \A g \in 1..Len(self.m_gaussian_distr) :
               self.m_gaussian_distr[g] = self.m_tgmm_tables[5 * (g - 1) + 5]
        /\ \A u \in {0, SampleDen - 1} :
               LET gaussian_idx ==
                       SampleSkyDraw(self.m_gaussian_distr, <<u, 0>>)[1]
                   gaussian ==
                       GatherGaussian(self.m_tgmm_tables, gaussian_idx)
               IN  /\ gaussian[5] = self.m_gaussian_distr[gaussian_idx + 1]
                   /\ gaussian[5] > 0

C15_Witness ==
    /\ pc = "ready"
    /\ last_call = [op |-> "parameters_changed", keys |-> {"turbidity"}]
    /\ faithful
    /\ self.m_gaussian_distr # Unset
    /\ self.m_turbidity = 9 * TurbDen + 1

\* C16: in a spectral variant the values the wavelength distribution is
\* built from are never all zero: when each of the CHANNEL_COUNT - 1 sums
\* of sun and sky radiance above the lowest channel is zero the values are
\* all 1, and when one of them is not zero the values are the sums.
C16_NoAllZeroSpectrum ==
    ret.op = "spectral_distr" =>
        LET summed == [i \in 1..(CHANNEL_COUNT - 1) |->
                          ret.sun_radiance[i + 1] + ret.sky_radiance[i + 1]]
            values == ret.distr[2]
        IN  /\ Len(values) = CHANNEL_COUNT - 1
            /\ \E i \in 1..(CHANNEL_COUNT - 1) : values[i] # 0
            /\ (\A i \in 1..(CHANNEL_COUNT - 1) : summed[i] = 0) =>
                   \A i \in 1..(CHANNEL_COUNT - 1) : values[i] = 1
            /\ (\E i \in 1..(CHANNEL_COUNT - 1) : summed[i] # 0) =>
                   values = summed

C16_Witness ==
    /\ ret.op = "spectral_distr"
    /\ ret.sky_radiance[1] # 0
    /\ ret.sky_radiance[2] = 0
    /\ \A i \in 1..(CHANNEL_COUNT - 1) : ret.distr[2][i] = 1

\* C17: for every turbidity and elevation passed to
\* build_tgmm_distribution, those outside the grid included, the low and
\* high indices satisfy 0 <= low <= high <= max on both axes, each of the
\* four block offsets plus the block size stays within the TGMM dataset,
\* and the remainder of an axis whose low and high indices are equal is 0.
C17_IndicesInDataset ==
    pc = "ready" =>
        LET eta == 90 - self.m_sun_angles[2]
            ix == TgmmIndices(self.m_turbidity, eta)
            indices == TgmmBlockOffsets(self.m_turbidity, eta)
            result_size == TGMM_COMPONENTS * TGMM_GAUSSIAN_PARAMS
        IN  /\ 0 <= ix.eta_idx_low /\ ix.eta_idx_low <= ix.eta_idx_high
            /\ ix.eta_idx_high <= ELEVATION_CTRL_PTS - 1
            /\ 0 <= ix.t_idx_low /\ ix.t_idx_low <= ix.t_idx_high
            /\ ix.t_idx_high <= (TURBITDITY_LVLS - 1) - 1
            /\ \A i \in 1..4 :
                   /\ 0 <= indices[i]
                   /\ indices[i] + result_size <= TgmmDatasetSize
            /\ ix.eta_idx_low = ix.eta_idx_high => ix.eta_rem = 0
            /\ ix.t_idx_low = ix.t_idx_high => ix.t_rem = 0
            /\ Len(self.m_tgmm_tables) = 4 * result_size

C17_Witness ==
    /\ pc = "ready"
    /\ self.m_turbidity = 11 * TurbDen
    /\ self.m_sun_angles[2] = 0
    /\ TgmmIndices(self.m_turbidity, 90).t_idx_low =
           TgmmIndices(self.m_turbidity, 90).t_idx_high
    /\ TgmmIndices(self.m_turbidity, 90).eta_idx_low = ELEVATION_CTRL_PTS - 1

====
